---- MODULE Spec2Model ----
(***************************************************************************)
(* Unity Catalog tools of spc-langchain:                                   *)
(*   spark_unitycatalog/tool.py     InfoUnityCatalogTool,                  *)
(*                                  ListUnityCatalogTablesTool,            *)
(*                                  SqlQueryValidatorTool                  *)
(*   unitycatalog_database/tool.py  InfoUnityCatalogTool                   *)
(*                                                                         *)
(* A Python str is modelled as a sequence of lexical tokens whose          *)
(* concatenation is the string.  The literals of the f-strings and of the  *)
(* regular expressions are tokens of their own, a line break is always the *)
(* token "\n", and a name, a type or a comment taken from the catalog is   *)
(* one token.  An Optional value is <<>> (None) or <<v>>.                  *)
(***************************************************************************)
EXTENDS Integers, Sequences, FiniteSets, TLC

VARIABLES
    \* one tool invocation (InfoUnityCatalogTool / ListUnityCatalogTablesTool)
    tool,          \* "none", "info" or "list": the tool whose _run is active
    variant,       \* "spark" (spark_unitycatalog) or "database" (unitycatalog_database)
    table_names,   \* table_names.split(", ")
    idx,           \* position of the for loop in table_names
    pc,            \* "idle", "loop", "get", "connect", "execute", "returned", "raised"
    session,       \* requests.Session: the adapter mounted per URL prefix
    retries_left,  \* retries the sending adapter still allows for the GET in flight
    in_flight,     \* HTTP requests sent and not yet answered
    response,      \* Optional: the last response (status_code, body)
    query,         \* `query` of _generate_create_table_query
    string_data,   \* Optional: `string_data` of the loop (None: not yet bound)
    final_string,  \* `final_string`
    result,        \* Optional: the string _run returned
    raised,        \* Optional: the exception that left _run
    conn_open,     \* connections of db._engine checked out and not yet released
    trace,         \* external calls and body parses of the invocation, in order
    \* generate_create_table_query as a function
    r_input, r_query,
    \* SqlQueryValidatorTool._parse_db_schema
    state,                \* self.state: the log of prior tool outputs
    p_pos,                \* position of `for value in self.state`
    p_pc,                 \* "scan", "returned"
    sql_db_schema_value,  \* the dict under construction: a sequence of (key, value)
    p_result              \* Optional: what _parse_db_schema returned

toolVars == <<tool, variant, table_names, idx, pc, session, retries_left,
              in_flight, response, query, string_data, final_string, result,
              raised, conn_open, trace>>

renderVars == <<r_input, r_query>>

parseVars == <<state, p_pos, p_pc, sql_db_schema_value, p_result>>

vars == <<toolVars, renderVars, parseVars>>

\* ------------------------------------------------------------------ bounds
MaxCols == 2

MaxTables == 2

MaxLog == 3

\* ------------------------------------------------------- program constants
sample_rows_in_table_info == 3

\* ----------------------------------------------------------------- helpers
None == <<>>

Some(v) == <<v>>

\* Python truthiness of an Optional[str]: None and "" are falsy.
Truthy(opt) == opt # None /\ opt[1] # <<>>

SeqsUpTo(S, n) == UNION {[1..k -> S] : k \in 0..n}

RECURSIVE Join(_, _)
\* sep.join(parts) for a sequence of strings
Join(sep, parts) ==
    IF parts = <<>> THEN <<>>
    ELSE IF Len(parts) = 1 THEN parts[1]
    ELSE parts[1] \o sep \o Join(sep, Tail(parts))

\* str.upper() on a catalog type token
Upper(t) ==
    CASE t = "int" -> "INT"
      [] t = "string" -> "STRING"
      [] OTHER -> t

\* ------------------------------------------------------------ DDL renderer
\* one column's line, without the comma and the line break
ColumnText(column_info) ==
    IF Truthy(column_info.comment)
    THEN <<"\t", column_info.name, " ", Upper(column_info.type_text),
           " COMMENT", " '">> \o column_info.comment[1] \o <<"' ">>
    ELSE <<"\t", column_info.name, " ", Upper(column_info.type_text), " ">>

\* "if column_info != table_data[-1]": dict inequality with the last element
IsNotLast(table_data, j) == table_data[j] # table_data[Len(table_data)]

ColumnLine(table_data, j) ==
    ColumnText(table_data[j])
      \o (IF IsNotLast(table_data, j) THEN <<",">> ELSE <<>>)
      \o <<"\n">>

RECURSIVE ColumnLines(_, _)
ColumnLines(table_data, j) ==
    IF j > Len(table_data) THEN <<>>
    ELSE ColumnLine(table_data, j) \o ColumnLines(table_data, j + 1)

HeaderText(table_name, table_comment) ==
    IF Truthy(table_comment)
    THEN <<"CREATE TABLE ">> \o table_name \o <<" COMMENT", " '">>
           \o table_comment[1] \o <<"' (", "\n">>
    ELSE <<"CREATE TABLE ">> \o table_name \o <<" (", "\n">>

\* the value of `query` when _get_sample_rows is called
QueryText(table_data, table_name, table_comment) ==
    HeaderText(table_name, table_comment)
      \o ColumnLines(table_data, 1)
      \o <<") ", "USING DELTA">>

\* the returned f-string, given the sample rows string
RenderedText(q, table_data, table_name, top_3_rows) ==
    q \o <<"\n", "\n", "/*", "\n">>
      \o <<ToString(sample_rows_in_table_info), " rows from ">> \o table_name
      \o <<" table:", "\n">>
      \o Join(<<"\t">>, [j \in 1..Len(table_data) |-> <<table_data[j].name>>])
      \o <<"\n">> \o top_3_rows \o <<"\n", "\\*", "\n">>

\* ------------------------------------------------------ catalog vocabulary
TableNames == {<<"tbl1">>, <<"tbl2">>}

ColumnNames == {"a", "b"}

TypeTexts == {"int", "string"}

Comments == {None, Some(<<"c1">>)}

ColumnInfos == [name : ColumnNames, type_text : TypeTexts, comment : Comments]

\* ------------------------------------------------------------ environment
\* What the catalog answers for a table: its JSON body on a 200.
TableJson(table_name) ==
    IF table_name = <<"tbl1">>
    THEN [kind |-> "table",
          columns |-> <<[name |-> "a", type_text |-> "int", comment |-> None],
                        [name |-> "b", type_text |-> "string",
                         comment |-> Some(<<"c1">>)]>>,
          comment |-> Some(<<"desc">>)]
    ELSE [kind |-> "table",
          columns |-> <<[name |-> "a", type_text |-> "int", comment |-> None]>>,
          comment |-> None]

\* the JSON body of the list endpoint on a 200
TablesJson ==
    [kind |-> "tables",
     tables |-> <<[name |-> <<"tbl1">>, comment |-> Some(<<"desc">>)],
                  [name |-> <<"tbl2">>, comment |-> None]>>]

\* a JSON body without the expected key, and a body that is not JSON
ErrorJson == [kind |-> "error"]

NotJson == [kind |-> "garbage"]

StatusCodes == {200, 404}

\* what the database may answer to the sample query
RowSets == {<<>>, << <<"1", "x">> >>}

SqlOutcomes == {"rows", "ProgrammingError", "OperationalError"}

\* ------------------------------------------------------------ HTTP client
\* urllib3 Retry(total, connect, read, backoff_factor); the factor in tenths
Retry(total, connect, read, backoff_factor) ==
    [total |-> total, connect |-> connect, read |-> read,
     backoff_factor |-> backoff_factor]

\* Retry(total=5, backoff_factor=0.3)
SparkRetries == Retry(5, None, None, 3)

\* Retry(total=10, connect=10, read=10, backoff_factor=0.3)
DatabaseRetries == Retry(10, Some(10), Some(10), 3)

\* the adapter a fresh requests.Session() mounts: no retry
DefaultRetries == Retry(0, None, None, 0)

HTTPAdapter(max_retries) == [max_retries |-> max_retries]

\* requests.Session(): its own default adapter on both prefixes
NewSession == [http |-> HTTPAdapter(DefaultRetries),
               https |-> HTTPAdapter(DefaultRetries)]

Mount(s, prefix, adapter) == [s EXCEPT ![prefix] = adapter]

\* the session of the spark variant, built once before the loop
SparkSession ==
    LET adapter == HTTPAdapter(SparkRetries)
    IN  Mount(Mount(NewSession, "http", adapter), "https", adapter)

\* the session of the database variant, built in every iteration: the
\* adapter is constructed and never mounted
DatabaseSession ==
    LET adapter == HTTPAdapter(DatabaseRetries)
    IN  NewSession

\* session.get on an https:// URL goes through the adapter of that prefix
SendingAdapter(s) == s.https

\* ------------------------------------------------------------------ _run
RECURSIVE Split(_, _)
\* str.split(sep) for a one-token separator
Split(text, sep) ==
    IF \A k \in 1..Len(text) : text[k] # sep THEN <<text>>
    ELSE LET k == CHOOSE k \in 1..Len(text) :
                    text[k] = sep /\ \A m \in 1..(k - 1) : text[m] # sep
         IN  <<SubSeq(text, 1, k - 1)>>
               \o Split(SubSeq(text, k + 1, Len(text)), sep)

\* the inputs the agent passes: "t1", "t1, t2", ...
ToolInputs ==
    {Join(<<", ">>, names) : names \in SeqsUpTo(TableNames, MaxTables) \ {<<>>}}

Event(op, table, arg) == [op |-> op, table |-> table, arg |-> arg]

Exc(class, from) == Some([class |-> class, from |-> from])

\* InfoUnityCatalogTool._run, up to the head of the loop
InfoRun(v, input) ==
    /\ UNCHANGED <<renderVars, parseVars>>
    /\ pc = "idle"
    /\ tool' = "info"
    /\ variant' = v
    /\ table_names' = Split(input, ", ")
    /\ final_string' = <<>>
    /\ session' = IF v = "spark" THEN Some(SparkSession) ELSE None
    /\ idx' = 1
    /\ pc' = "loop"
    /\ UNCHANGED <<retries_left, in_flight, response, query, string_data,
                   result, raised, conn_open, trace>>

\* ListUnityCatalogTablesTool._run, up to and including the sending of the GET
ListRun ==
    /\ UNCHANGED <<renderVars, parseVars>>
    /\ pc = "idle"
    /\ tool' = "list"
    /\ variant' = "spark"
    /\ session' = Some(SparkSession)
    /\ retries_left' = SendingAdapter(SparkSession).max_retries.total
    /\ in_flight' = in_flight + 1
    /\ trace' = Append(trace, Event("GET", <<>>, SendingAdapter(SparkSession).max_retries))
    /\ pc' = "get"
    /\ UNCHANGED <<table_names, idx, response, query, string_data,
                   final_string, result, raised, conn_open>>

\* next iteration of `for table_name in table_names`: session.get is sent
SendGet ==
    /\ UNCHANGED <<renderVars, parseVars>>
    /\ pc = "loop"
    /\ idx <= Len(table_names)
    /\ LET s == IF variant = "spark" THEN session[1] ELSE DatabaseSession
       IN  /\ session' = Some(s)
           /\ retries_left' = SendingAdapter(s).max_retries.total
           /\ trace' = Append(trace, Event("GET", table_names[idx],
                                           SendingAdapter(s).max_retries))
    /\ in_flight' = in_flight + 1
    /\ pc' = "get"
    /\ UNCHANGED <<tool, variant, table_names, idx, response, query,
                   string_data, final_string, result, raised, conn_open>>

\* an attempt fails in transport: the adapter retries while its policy allows
GetAttemptFails ==
    /\ UNCHANGED <<renderVars, parseVars>>
    /\ pc = "get"
    /\ IF retries_left > 0
       THEN /\ retries_left' = retries_left - 1
            /\ UNCHANGED <<pc, raised, in_flight>>
       ELSE /\ raised' = Exc("ConnectionError", "get")
            /\ in_flight' = in_flight - 1
            /\ pc' = "raised"
            /\ UNCHANGED retries_left
    /\ UNCHANGED <<tool, variant, table_names, idx, session, response, query,
                   string_data, final_string, result, conn_open, trace>>

\* no variant checks the status
StatusNeverChecked(v) == FALSE

\* "if response.status_code != 200: raise": only the spark variant has it
StatusChecked(v) == v = "spark"

\* f"{table_name}({comment})\n" for every table of the list
RECURSIVE TableInfo(_)
TableInfo(tables) ==
    IF tables = <<>> THEN <<>>
    ELSE tables[1].name \o <<"(">>
           \o (IF tables[1].comment = None THEN <<"None">>
               ELSE tables[1].comment[1])
           \o <<")", "\n">> \o TableInfo(Tail(tables))

\* the bodies the endpoint of the request in flight may answer with
Bodies ==
    IF pc # "get" THEN {}
    ELSE {IF tool = "list" THEN TablesJson ELSE TableJson(table_names[idx]),
          ErrorJson, NotJson}

\* the response arrives; the code runs on to the next external call
ReceiveResponse(status_code, body) ==
    /\ UNCHANGED <<renderVars, parseVars>>
    /\ pc = "get"
    /\ in_flight' = in_flight - 1
    /\ response' = Some([status_code |-> status_code, body |-> body])
    /\ IF StatusChecked(variant) /\ status_code # 200
       THEN /\ raised' = Exc("Exception", "status")
            /\ pc' = "raised"
            /\ UNCHANGED <<trace, query, result>>
       ELSE /\ trace' = Append(trace, Event("PARSE", <<>>, status_code))
            /\ IF body.kind = "garbage"
               THEN /\ raised' = Exc("JSONDecodeError", "parse")
                    /\ pc' = "raised"
                    /\ UNCHANGED <<query, result>>
               ELSE IF body.kind = "error"
               THEN /\ raised' = Exc("KeyError", "parse")
                    /\ pc' = "raised"
                    /\ UNCHANGED <<query, result>>
               ELSE IF tool = "list"
               THEN /\ result' = Some(TableInfo(body.tables))
                    /\ pc' = "returned"
                    /\ UNCHANGED <<query, raised>>
               ELSE /\ query' = QueryText(body.columns, table_names[idx],
                                          body.comment)
                    /\ pc' = "connect"
                    /\ UNCHANGED <<result, raised>>
    /\ UNCHANGED <<tool, variant, table_names, idx, session, retries_left,
                   string_data, final_string, conn_open>>

\* "Select * from {table} limit {sample_rows_in_table_info}"
Command(table) ==
    <<"Select * from ">> \o table
      \o <<" limit ", ToString(sample_rows_in_table_info)>>

\* str(i)[:100] of a cell, the cell being its characters
CellText(cell) == SubSeq(cell, 1, IF Len(cell) < 100 THEN Len(cell) ELSE 100)

\* "\n".join(["\t".join(row) for row in sample_rows])
SampleRowsStr(rows) ==
    Join(<<"\n">>,
         [r \in 1..Len(rows) |->
            Join(<<"\t">>, [c \in 1..Len(rows[r]) |-> CellText(<<rows[r][c]>>)])])

\* "except ProgrammingError": the classes the handler of _get_sample_rows catches
Swallowed(class) == class = "ProgrammingError"

\* a with block that gives the connection back only when it ends normally
AfterWithOnSuccess(n, outcome) == IF outcome = "rows" THEN n - 1 ELSE n

\* leaving "with ... as connection": the connection goes back, however the
\* block was left
AfterWith(n, outcome) == n - 1

\* _get_sample_rows returned: the rest of _generate_create_table_query and
\* of the loop body
FinishRender(sample_rows_str) ==
    /\ string_data' = Some(RenderedText(query, response[1].body.columns,
                                        table_names[idx], sample_rows_str))
    /\ idx' = idx + 1
    /\ pc' = "loop"
    /\ UNCHANGED raised

\* self.db._engine.connect()
Connect(outcome) ==
    /\ UNCHANGED <<renderVars, parseVars>>
    /\ pc = "connect"
    /\ trace' = Append(trace, Event("CONNECT", table_names[idx], outcome))
    /\ IF outcome = "rows"
       THEN /\ conn_open' = conn_open + 1
            /\ pc' = "execute"
            /\ UNCHANGED <<string_data, idx, raised>>
       ELSE /\ UNCHANGED conn_open
            /\ IF Swallowed(outcome)
               THEN FinishRender(<<>>)
               ELSE /\ raised' = Exc(outcome, "connect")
                    /\ pc' = "raised"
                    /\ UNCHANGED <<string_data, idx>>
    /\ UNCHANGED <<tool, variant, table_names, session, retries_left,
                   in_flight, response, query, final_string, result>>

\* connection.execute(command), the reading of the rows, the end of the with
Execute(outcome, rows) ==
    /\ UNCHANGED <<renderVars, parseVars>>
    /\ pc = "execute"
    /\ trace' = Append(trace, Event("QUERY", Command(table_names[idx]), outcome))
    /\ conn_open' = AfterWith(conn_open, outcome)
    /\ IF outcome = "rows"
       THEN FinishRender(SampleRowsStr(rows))
       ELSE IF Swallowed(outcome)
       THEN FinishRender(<<>>)
       ELSE /\ raised' = Exc(outcome, "execute")
            /\ pc' = "raised"
            /\ UNCHANGED <<string_data, idx>>
    /\ UNCHANGED <<tool, variant, table_names, session, retries_left,
                   in_flight, response, query, final_string, result>>

\* what is returned after the loop: final_string, a line break and the
\* string_data the loop left
Returned(final, data) == final \o <<"\n">> \o data

\* the loop is over: return
Return ==
    /\ UNCHANGED <<renderVars, parseVars>>
    /\ pc = "loop"
    /\ idx > Len(table_names)
    /\ final_string' = IF variant = "database"
                       THEN Returned(final_string, string_data[1])
                       ELSE final_string
    /\ result' = Some(Returned(final_string, string_data[1]))
    /\ pc' = "returned"
    /\ UNCHANGED <<tool, variant, table_names, idx, session, retries_left,
                   in_flight, response, query, string_data, raised, conn_open,
                   trace>>

\* the agent is back in control and may call a tool again
Done ==
    /\ UNCHANGED <<renderVars, parseVars>>
    /\ pc \in {"returned", "raised"}
    /\ tool' = "none"
    /\ variant' = "spark"
    /\ table_names' = <<>>
    /\ idx' = 1
    /\ pc' = "idle"
    /\ session' = None
    /\ retries_left' = 0
    /\ response' = None
    /\ query' = <<>>
    /\ string_data' = None
    /\ final_string' = <<>>
    /\ result' = None
    /\ raised' = None
    /\ trace' = <<>>
    /\ UNCHANGED <<in_flight, conn_open>>

ToolIdle ==
    /\ tool = "none"
    /\ variant = "spark"
    /\ table_names = <<>>
    /\ idx = 1
    /\ pc = "idle"
    /\ session = None
    /\ retries_left = 0
    /\ in_flight = 0
    /\ response = None
    /\ query = <<>>
    /\ string_data = None
    /\ final_string = <<>>
    /\ result = None
    /\ raised = None
    /\ conn_open = 0
    /\ trace = <<>>

RenderIdle ==
    /\ r_input = [table_data |-> <<>>, table_name |-> <<"tbl1">>,
                  table_comment |-> None]
    /\ r_query = None

ParseIdle ==
    /\ state = <<>>
    /\ p_pos = 1
    /\ p_pc = "returned"
    /\ sql_db_schema_value = <<>>
    /\ p_result = None

\* ================================================================== Spec
\* the catalog tools called by the agent, one call after another
Init == ToolIdle /\ RenderIdle /\ ParseIdle

Next ==
    \/ \E v \in {"spark", "database"}, input \in ToolInputs : InfoRun(v, input)
    \/ ListRun
    \/ SendGet
    \/ GetAttemptFails
    \/ \E status_code \in StatusCodes, body \in Bodies :
         /\ (status_code = 200 => body.kind \in {"table", "tables"})
         /\ ReceiveResponse(status_code, body)
    \/ \E outcome \in SqlOutcomes : Connect(outcome)
    \/ \E outcome \in SqlOutcomes, rows \in RowSets : Execute(outcome, rows)
    \/ Return
    \/ Done

Spec == Init /\ [][Next]_vars


\* ============================================================ SpecRender
\* generate_create_table_query applied to every bounded table descriptor
RenderInit ==
    /\ ToolIdle
    /\ ParseIdle
    /\ r_input \in [table_data : SeqsUpTo(ColumnInfos, MaxCols),
                    table_name : TableNames,
                    table_comment : {None, Some(<<"desc">>)}]
    /\ r_query = None

RenderQuery ==
    /\ r_query = None
    /\ r_query' = Some(QueryText(r_input.table_data, r_input.table_name,
                                 r_input.table_comment))
    /\ UNCHANGED <<r_input, toolVars, parseVars>>

RenderNext == RenderQuery

SpecRender == RenderInit /\ [][RenderNext]_vars

\* ====================================================== _parse_db_schema
\* `x in text` for a one-token x
Contains(text, tok) == \E k \in 1..Len(text) : text[k] = tok

\* `if "sql_db_schema" in key`
IsSchemaKey(key) == Contains(key, "sql_db_schema")

\* re.search(r"CREATE TABLE (.*?) COMMENT", s): "." stops at a line break.
\* A match starts at p and ends at q, the group lying strictly between them.
NameMatch(s, p, q) ==
    /\ s[p] = "CREATE TABLE "
    /\ s[q] = " COMMENT"
    /\ \A m \in (p + 1)..(q - 1) : s[m] # "\n"

NameStart(s, p) == \E q \in (p + 1)..Len(s) : NameMatch(s, p, q)

\* the leftmost start that matches, with the shortest group; None: no match
SearchName(s) ==
    IF \A p \in 1..Len(s) : ~NameStart(s, p) THEN None
    ELSE LET p == CHOOSE p \in 1..Len(s) :
                    NameStart(s, p) /\ \A m \in 1..(p - 1) : ~NameStart(s, m)
             q == CHOOSE q \in (p + 1)..Len(s) :
                    NameMatch(s, p, q)
                      /\ \A m \in (p + 1)..(q - 1) : ~NameMatch(s, p, m)
         IN  Some(<<p, q>>)

\* re.search(rf"CREATE TABLE {table_name}.*?USING DELTA", s, re.DOTALL)
BlockMatch(s, table_name, p, q) ==
    /\ s[p] = "CREATE TABLE "
    /\ p + Len(table_name) < q
    /\ SubSeq(s, p + 1, p + Len(table_name)) = table_name
    /\ s[q] = "USING DELTA"

BlockStart(s, table_name, p) ==
    \E q \in (p + 1)..Len(s) : BlockMatch(s, table_name, p, q)

\* the text of the leftmost, shortest match; None: no match
SearchBlock(s, table_name) ==
    IF \A p \in 1..Len(s) : ~BlockStart(s, table_name, p) THEN None
    ELSE LET p == CHOOSE p \in 1..Len(s) :
                    BlockStart(s, table_name, p)
                      /\ \A m \in 1..(p - 1) : ~BlockStart(s, table_name, m)
             q == CHOOSE q \in (p + 1)..Len(s) :
                    BlockMatch(s, table_name, p, q)
                      /\ \A m \in (p + 1)..(q - 1) :
                           ~BlockMatch(s, table_name, p, m)
         IN  Some(SubSeq(s, p, q))

\* d[k] = v on a dict kept as its items in insertion order
DictSet(d, k, v) ==
    IF \E j \in 1..Len(d) : d[j][1] = k
    THEN [j \in 1..Len(d) |-> IF d[j][1] = k THEN <<k, v>> ELSE d[j]]
    ELSE Append(d, <<k, v>>)

\* the body of the "if" for one matching item
AddSchema(d, input_string) ==
    LET tool_input_match == SearchName(input_string)
    IN  IF tool_input_match = None THEN d
        ELSE LET table_name == SubSeq(input_string, tool_input_match[1][1] + 1,
                                      tool_input_match[1][2] - 1)
                 create_table_match == SearchBlock(input_string, table_name)
             IN  IF create_table_match = None THEN d
                 ELSE DictSet(d, table_name, create_table_match[1])

RECURSIVE ScanItemsContinue(_, _)
\* the loop with `continue` in the else branch
ScanItemsContinue(items, d) ==
    IF items = <<>> THEN [returned |-> FALSE, d |-> d]
    ELSE IF IsSchemaKey(items[1][1])
    THEN ScanItemsContinue(Tail(items), AddSchema(d, items[1][2]))
    ELSE ScanItemsContinue(Tail(items), d)

RECURSIVE ScanItems(_, _)
\* `for key, input_string in value.items()`: the dict afterwards, and
\* whether the else branch returned
ScanItems(items, d) ==
    IF items = <<>> THEN [returned |-> FALSE, d |-> d]
    ELSE IF IsSchemaKey(items[1][1])
    THEN ScanItems(Tail(items), AddSchema(d, items[1][2]))
    ELSE [returned |-> TRUE, d |-> d]

\* one iteration of `for value in self.state`
ScanValue ==
    /\ p_pc = "scan"
    /\ p_pos <= Len(state)
    /\ LET r == ScanItems(state[p_pos], sql_db_schema_value)
       IN  /\ sql_db_schema_value' = r.d
           /\ IF r.returned
              THEN /\ p_result' = None
                   /\ p_pc' = "returned"
                   /\ UNCHANGED p_pos
              ELSE /\ p_pos' = p_pos + 1
                   /\ UNCHANGED <<p_result, p_pc>>
    /\ UNCHANGED <<state, toolVars, renderVars>>

\* `return sql_db_schema_value` after the loop
ParseReturn ==
    /\ p_pc = "scan"
    /\ p_pos > Len(state)
    /\ p_result' = Some(sql_db_schema_value)
    /\ p_pc' = "returned"
    /\ UNCHANGED <<state, p_pos, sql_db_schema_value, toolVars, renderVars>>

\* ------------------------------------------------------- the log's entries
\* the tables whose description may be in the log
LoggedTables ==
    [table_name : TableNames,
     table_comment : {None, Some(<<"desc">>)},
     table_data : {<<[name |-> "a", type_text |-> "int", comment |-> None]>>,
                   <<[name |-> "a", type_text |-> "int", comment |-> None],
                     [name |-> "b", type_text |-> "string",
                      comment |-> Some(<<"c1">>)]>>}]

\* what InfoUnityCatalogTool._run returns for a one-table input
DescribeOutput(t) ==
    Returned(<<>>,
             RenderedText(QueryText(t.table_data, t.table_name, t.table_comment),
                          t.table_data, t.table_name,
                          SampleRowsStr(<< <<"1", "x">> >>)))

SchemaKey == <<"sql_db_schema">>

ListKey == <<"sql_db_list_tables">>

ListOutput == TableInfo(TablesJson.tables)

\* an entry of self.state: the items of a {tool name: tool output} dict
LogEntries ==
    {<< <<SchemaKey, DescribeOutput(t)>> >> : t \in LoggedTables}
      \cup {<< <<ListKey, ListOutput>> >>,
            << <<SchemaKey,
                 DescribeOutput([table_name |-> <<"tbl1">>,
                                 table_comment |-> Some(<<"desc">>),
                                 table_data |-> <<[name |-> "a", type_text |-> "int",
                                                   comment |-> None]>>])>>,
               <<ListKey, ListOutput>> >>}

\* ============================================================= SpecParse
\* _parse_db_schema applied to every bounded log
ParseInit ==
    /\ ToolIdle
    /\ RenderIdle
    /\ state \in SeqsUpTo(LogEntries, MaxLog)
    /\ p_pos = 1
    /\ p_pc = "scan"
    /\ sql_db_schema_value = <<>>
    /\ p_result = None

ParseNext == ScanValue \/ ParseReturn

SpecParse == ParseInit /\ [][ParseNext]_vars

\* ================================================================ claims
\* the events of the trace with one of the given ops, in order
SelectOps(tr, ops) == SelectSeq(tr, LAMBDA e : e.op \in ops)

\* the tables of the GETs sent so far, in order
GetTables == [j \in 1..Len(SelectOps(trace, {"GET"})) |->
                SelectOps(trace, {"GET"})[j].table]

\* every GET sent was answered, and answered 200
AllGets200 ==
    /\ Len(SelectOps(trace, {"PARSE"})) = Len(SelectOps(trace, {"GET"}))
    /\ \A j \in 1..Len(trace) : trace[j].op = "PARSE" => trace[j].arg = 200

\* the table names that follow the "CREATE TABLE " tokens of a text, in order
BlockNames(text) ==
    LET at == SelectSeq([j \in 1..Len(text) |-> j],
                        LAMBDA j : text[j] = "CREATE TABLE ")
    IN  [j \in 1..Len(at) |-> <<text[at[j] + 1]>>]

Count(text, tok) == Cardinality({j \in 1..Len(text) : text[j] = tok})

\* C1: a describe call whose GETs all returned 200 returns one
\* CREATE TABLE ... USING DELTA block per input table, in input order.
C1_OneBlockPerTable ==
    (tool = "info" /\ pc = "returned" /\ AllGets200)
      => /\ BlockNames(result[1]) = table_names
         /\ Count(result[1], "USING DELTA") = Len(table_names)

\* C2: once a response with a status other than 200 has arrived, the call has
\* failed on the status, the body was not parsed, nothing was rendered from
\* it and no result string is returned.
C2_Non200FailsBeforeParse ==
    (response # None /\ response[1].status_code # 200)
      => /\ pc = "raised"
         /\ raised[1].from = "status"
         /\ trace[Len(trace)].op = "GET"
         /\ result = None

\* C3: no error raised while the sample query executes leaves the fetch: the
\* call never ends on an exception that comes from the execution.
C3_ExecuteErrorSwallowed ==
    ~(pc = "raised" /\ raised[1].from = "execute")

\* C7: at most one GET is in flight, and a describe call that has ended with
\* all its GETs answered 200 has sent exactly one GET per input table, in
\* input order, duplicates included.
C7_OneGetPerTable ==
    /\ in_flight <= 1
    /\ (tool = "info" /\ pc \in {"returned", "raised"} /\ AllGets200)
         => GetTables = table_names

\* C8: at most one connection of a sample-row fetch is open at any time, none
\* is open outside the with block (so none after any sequence of calls), and
\* every connection acquired serves exactly one query.
C8_ConnectionScoped ==
    /\ conn_open <= 1
    /\ (pc # "execute" => conn_open = 0)
    /\ \A j \in 1..Len(trace) :
         /\ (trace[j].op = "CONNECT" /\ trace[j].arg = "rows")
              => IF j = Len(trace) THEN pc = "execute" /\ conn_open = 1
                 ELSE trace[j + 1].op = "QUERY"
         /\ trace[j].op = "QUERY"
              => j > 1 /\ trace[j - 1].op = "CONNECT" /\ trace[j - 1].arg = "rows"

\* C8 witness: a query failed, the error was swallowed, the loop went on and
\* the connection is back.
C8_Witness ==
    /\ pc = "loop"
    /\ trace # <<>>
    /\ trace[Len(trace)].op = "QUERY"
    /\ trace[Len(trace)].arg = "ProgrammingError"
    /\ conn_open = 0

\* the retry policy each variant builds for its GETs
PolicyBuilt == IF variant = "spark" THEN SparkRetries ELSE DatabaseRetries

\* C9: every GET is sent through an adapter that carries the retry policy the
\* variant built for it, and is retried at most that policy's total.
C9_RetryInstalled ==
    /\ \A j \in 1..Len(trace) : trace[j].op = "GET" => trace[j].arg = PolicyBuilt
    /\ (pc = "get" => retries_left <= PolicyBuilt.total)

\* an external call of the describe loop is about to be made
ExternalCall ==
    \/ SendGet
    \/ \E outcome \in SqlOutcomes : Connect(outcome)
    \/ \E outcome \in SqlOutcomes, rows \in RowSets : Execute(outcome, rows)

\* C10 as stated: in the spark variant the GETs and the sample queries
\* alternate, GET(t1), query(t1), GET(t2), query(t2), ...; and when GET(tk) is
\* the first answered other than 200, k GETs and k-1 sample queries were
\* issued and none follows.
C10_GetQueryAlternate ==
    (tool = "info" /\ variant = "spark")
      => LET calls == SelectOps(trace, {"GET", "QUERY"})
         IN  /\ \A j \in 1..Len(calls) :
                  IF j % 2 = 1
                  THEN calls[j].op = "GET"
                         /\ calls[j].table = table_names[(j + 1) \div 2]
                  ELSE calls[j].op = "QUERY"
                         /\ calls[j].table = Command(table_names[j \div 2])
             /\ (pc = "raised" /\ raised[1].from = "status")
                  => /\ Len(SelectOps(trace, {"GET"})) = idx
                     /\ Len(SelectOps(trace, {"QUERY"})) = idx - 1
                     /\ ~ENABLED ExternalCall

\* C10, amended: in the spark variant the GETs and the sample-row fetches
\* (the connect, then the query if the connection was acquired) alternate in
\* input order; a fetch starts only right after its table's GET was answered
\* 200 and parsed; a query runs only right after its table's connection was
\* acquired; and when GET(tk) is the first answered other than 200, k GETs,
\* k-1 fetches and one query per acquired connection were issued and none
\* follows.
C10_GetFetchAlternate ==
    (tool = "info" /\ variant = "spark")
      => LET calls == SelectOps(trace, {"GET", "CONNECT"})
         IN  /\ \A j \in 1..Len(calls) :
                  /\ calls[j].op = (IF j % 2 = 1 THEN "GET" ELSE "CONNECT")
                  /\ calls[j].table = table_names[(j + 1) \div 2]
             /\ \A j \in 1..Len(trace) :
                  /\ trace[j].op = "CONNECT"
                       => /\ j > 2
                          /\ trace[j - 1].op = "PARSE" /\ trace[j - 1].arg = 200
                          /\ trace[j - 2].op = "GET"
                          /\ trace[j - 2].table = trace[j].table
                  /\ trace[j].op = "QUERY"
                       => /\ j > 1
                          /\ trace[j - 1].op = "CONNECT"
                          /\ trace[j - 1].arg = "rows"
                          /\ trace[j].table = Command(trace[j - 1].table)
             /\ (pc = "raised" /\ raised[1].from = "status")
                  => /\ Len(SelectOps(trace, {"GET"})) = idx
                     /\ Len(SelectOps(trace, {"CONNECT"})) = idx - 1
                     /\ Len(SelectOps(trace, {"QUERY"}))
                          = Cardinality({j \in 1..Len(trace) :
                               trace[j].op = "CONNECT" /\ trace[j].arg = "rows"})
                     /\ ~ENABLED ExternalCall

\* C10 witness: the second GET of a spark describe call is the first answered
\* other than 200, after the first table's sample query ran.
C10_Witness ==
    /\ tool = "info" /\ variant = "spark"
    /\ pc = "raised" /\ raised[1].from = "status"
    /\ idx = 2
    /\ Len(SelectOps(trace, {"QUERY"})) = 1

\* C4: in the rendered query of n >= 1 columns, the line of column j is the
\* j-th line after the header, names column j, and ends with a comma exactly
\* when j < n.
C4_TrailingComma ==
    (r_query # None /\ Len(r_input.table_data) >= 1)
      => LET lines == Split(r_query[1], "\n")
             n == Len(r_input.table_data)
         IN  /\ Len(lines) = n + 2
             /\ \A j \in 1..n :
                  LET line == lines[j + 1]
                  IN  /\ line[1] = "\t"
                      /\ line[2] = r_input.table_data[j].name
                      /\ line[4] = Upper(r_input.table_data[j].type_text)
                      /\ (line[Len(line)] = ",") <=> (j < n)

\* an entry of the log has an item whose key lacks "sql_db_schema"
Mismatches(entry) ==
    \E j \in 1..Len(entry) : ~Contains(entry[j][1], "sql_db_schema")

\* the first entry of the log that has such an item
FirstMismatch ==
    CHOOSE k \in 1..Len(state) :
      Mismatches(state[k]) /\ \A m \in 1..(k - 1) : ~Mismatches(state[m])

\* C5 as stated: with a non-matching entry in the log, _parse_db_schema
\* returns an empty map, at the first such entry.
C5_EmptyMapOnMismatch ==
    (p_pc = "returned" /\ \E k \in 1..Len(state) : Mismatches(state[k]))
      => /\ p_result = Some(<<>>)
         /\ p_pos = FirstMismatch

\* C5, amended: with a non-matching entry in the log, _parse_db_schema returns
\* None (no map at all), at the first such entry: no later entry is scanned,
\* whatever the earlier entries contributed and the later ones hold.
C5_NoneOnMismatch ==
    (p_pc = "returned" /\ \E k \in 1..Len(state) : Mismatches(state[k]))
      => /\ p_result = None
         /\ p_pos = FirstMismatch

\* C5 witness: the return at a non-matching entry that follows an entry which
\* contributed a table and precedes an entry of the schema tool.
C5_Witness ==
    /\ p_pc = "returned"
    /\ p_result = None
    /\ p_pos = 2
    /\ Len(state) = 3
    /\ sql_db_schema_value # <<>>
    /\ ~Mismatches(state[3])

\* an entry is one output of the describe tool, as the renderer writes it
IsDescribeEntry(entry) ==
    /\ Len(entry) = 1
    /\ entry[1][1] = SchemaKey
    /\ \E t \in LoggedTables : entry[1][2] = DescribeOutput(t)

TableOf(entry) == CHOOSE t \in LoggedTables : entry[1][2] = DescribeOutput(t)

\* C6: for a log of describe outputs only, the map returned has exactly the
\* tables of the log as keys, each with the CREATE TABLE ... USING DELTA text
\* of the last entry that describes it.
C6_MapHasEveryTable ==
    (p_pc = "returned" /\ \A k \in 1..Len(state) : IsDescribeEntry(state[k]))
      => /\ p_result # None
         /\ LET d == p_result[1]
            IN  /\ {d[j][1] : j \in 1..Len(d)}
                     = {TableOf(state[k]).table_name : k \in 1..Len(state)}
                /\ \A j \in 1..Len(d) :
                     \E k \in 1..Len(state) :
                       /\ TableOf(state[k]).table_name = d[j][1]
                       /\ \A m \in (k + 1)..Len(state) :
                            TableOf(state[m]).table_name # d[j][1]
                       /\ d[j][2] = QueryText(TableOf(state[k]).table_data,
                                              TableOf(state[k]).table_name,
                                              TableOf(state[k]).table_comment)

====
